---- MODULE Spec2Model ----
(***************************************************************************)
(* Model of py-polars/polars/utils/_async.py: _AsyncDataFrameResult, the   *)
(* one-shot result future that bridges a producer pushing one item into a  *)
(* queue.Queue and consumer threads calling get(block, timeout).           *)
(*                                                                         *)
(* Every consumer thread is a small program counter over the lines of     *)
(* get (L22 .. L31); threads interleave between the reads and writes of    *)
(* self._result and the call of self.queue.get, as CPython threads do.     *)
(***************************************************************************)
EXTENDS Integers, Sequences, FiniteSets

\* ---------------------------------------------------------------- bounds
NumThreads == 2      \* consumer threads that may call get on the future
MaxCalls == 2        \* get invocations over the future's life, several consumers
MaxSeqCalls == 3     \* get invocations over the future's life, one consumer
NumPayloads == 1     \* distinct raw success payloads the producer may push
NumErrors == 1       \* distinct exceptions the producer may push

Threads == 1..NumThreads

\* ---------------------------------------------------------------- values
\* Python values that can sit in self._result, in the queue or in a result.
None == [kind |-> "None", v |-> 0]
PyDataFrame(x) == [kind |-> "PyDataFrame", v |-> x]
DataFrame(x) == [kind |-> "DataFrame", v |-> x]
Exception(e) == [kind |-> "Exception", v |-> e]
Empty == [kind |-> "Empty", v |-> 0]

RawPayloads == {PyDataFrame(x) : x \in 1..NumPayloads}
ProducerErrors == {Exception(e) : e \in 1..NumErrors}
Outcomes == RawPayloads \cup ProducerErrors

\* The timeout argument, by what queue.get does with it:
\*   "None"      no timeout
\*   "negative"  a number below zero
\*   "zero"      0
\*   "positive"  a positive duration the lock wait of Condition.wait
\*               accepts; how long it lasts is left open: its deadline
\*               passes at some moment of the wait (L27_wait)
\*   "huge"      a float duration the lock wait rejects with OverflowError
\*               (well above threading.TIMEOUT_MAX, float('inf') included)
\*   "bigint"    an int too large to convert to a float: the deadline
\*               time() + timeout cannot be computed
\*   "nan"       float('nan'): every comparison with it is false, so it is
\*               neither negative nor ever run out
NoTimeout == "None"
Timeouts ==
    {NoTimeout, "negative", "zero", "positive", "huge", "bigint", "nan"}

\* isinstance(x, Exception): true of the producer's exceptions and of
\* queue.Empty, which is an Exception subclass.
isinstance_Exception(x) == x.kind \in {"Exception", "Empty"}

\* polars.utils._wrap.wrap_df: builds the consumer-facing DataFrame around
\* the raw PyDataFrame.
wrap_df(raw) == DataFrame(raw.v)

VARIABLES
    queue,      \* self.queue: the items put and not yet taken
    result,     \* self._result
    produced,   \* the item the producer has put, None before it does
    consumers,  \* the threads holding the future
    pc,         \* per thread: "idle" or the line of get it is about to run
    block,      \* per thread: the block argument of the get it is running
    timeout,    \* per thread: the timeout argument of the get it is running
    expired,    \* per thread: the deadline of its timed wait has passed
    item,       \* per thread: the value queue.get (line 27) or wrap_df
                \* (line 30) returned, not yet assigned to self._result
    waiters,    \* self.queue.not_empty's waiters, oldest first: the threads
                \* registered in Condition.wait and not yet notified
    calls,      \* get invocations started so far, over all threads
    hist        \* observation record, see Hist0

vars == <<queue, result, produced, consumers, waiters, pc, block, timeout,
          expired,
          item, calls, hist>>

\* Observations the properties are stated over; no action reads them.
\*   recv      number of successful receives from the queue
\*   wraps     number of wrap_df invocations that returned
\*   wrapRaised  a wrap_df invocation raised instead of returning
\*   timedOut  some invocation ended with Empty after a timed blocking wait
\*   wouldBlock  some invocation with block=False ended with Empty
\* and, kept when one consumer alone holds the future (consumers = {1}), of
\* the invocation that consumer is running:
\*   late      it started after the producer's put
\*   hot       it started with self._result not None
\*   first     it is the first one made on the future
Hist0 ==
    [recv |-> 0, wraps |-> 0, wrapRaised |-> FALSE,
     timedOut |-> FALSE, wouldBlock |-> FALSE,
     late |-> FALSE, hot |-> FALSE, first |-> FALSE]

\* __init__ (lines 17-19): the queue handed in is empty, _result is None.
InitWith(cs) ==
    /\ queue = <<>>
    /\ result = None
    /\ produced = None
    /\ consumers = cs
    /\ waiters = <<>>
    /\ pc = [t \in Threads |-> "idle"]
    /\ block = [t \in Threads |-> TRUE]
    /\ timeout = [t \in Threads |-> NoTimeout]
    /\ expired = [t \in Threads |-> FALSE]
    /\ item = [t \in Threads |-> None]
    /\ calls = 0
    /\ hist = Hist0

Init == InitWith(Threads)

InitSingle == InitWith({1})

\* ------------------------------------------------------------- producer
\* The producer collaborator puts exactly one item, a raw payload or an
\* exception, and never puts again.  queue.put appends the item and notifies
\* not_empty, which takes the oldest waiter off the list and wakes it.
Put(o) ==
    /\ produced = None
    /\ produced' = o
    /\ queue' = Append(queue, o)
    /\ waiters' = IF waiters = <<>> THEN <<>> ELSE Tail(waiters)
    /\ UNCHANGED <<result, consumers, pc, block, timeout, expired, item,
                   calls, hist>>

\* ------------------------------------------------------------- get
\* The invocations explored: more of them when one consumer makes them all.
CallLimit == IF consumers = {1} THEN MaxSeqCalls ELSE MaxCalls

\* A consumer thread enters get(block=b, timeout=d) (line 21).  Idle threads
\* are alike (Finish clears everything a thread holds), so the idle thread
\* of least number stands for any of them.
Call(t, b, d) ==
    /\ t \in consumers
    /\ pc[t] = "idle"
    /\ \A u \in consumers : u < t => pc[u] # "idle"
    /\ calls < CallLimit
    /\ calls' = calls + 1
    /\ pc' = [pc EXCEPT ![t] = "L22"]
    /\ block' = [block EXCEPT ![t] = b]
    /\ timeout' = [timeout EXCEPT ![t] = d]
    /\ hist' = IF consumers = {1}
                THEN [hist EXCEPT !.late = (produced # None),
                                  !.hot = (result # None),
                                  !.first = (calls = 0)]
                ELSE hist
    /\ UNCHANGED <<queue, result, produced, consumers, waiters, expired, item>>

\* Thread t leaves get, by return or by raise; the frame's locals go.
Finish(t, emptied) ==
    /\ pc' = [pc EXCEPT ![t] = "idle"]
    /\ block' = [block EXCEPT ![t] = TRUE]
    /\ timeout' = [timeout EXCEPT ![t] = NoTimeout]
    /\ expired' = [expired EXCEPT ![t] = FALSE]
    /\ item' = [item EXCEPT ![t] = None]
    /\ hist' = [hist EXCEPT !.late = FALSE, !.hot = FALSE,
                            !.first = FALSE,
                            !.timedOut = @ \/ (emptied /\ block[t]),
                            !.wouldBlock = @ \/ (emptied /\ ~block[t])]

\* Mutant of CacheHit: the cached outcome is never consulted.
CacheHit_never == FALSE

\* The test of line 22.
CacheHit == result # None

\* Mutant of RecvBlock: block is not handed on, queue.get uses its default.
RecvBlock_dropped(t) == TRUE

\* line 27: the arguments handed on to self.queue.get.
RecvBlock(t) == block[t]

\* Mutant of RecvTimeout: a timeout of None is handed on as 0.
RecvTimeout_zero(t) == IF timeout[t] = NoTimeout THEN "zero" ELSE timeout[t]

RecvTimeout(t) == timeout[t]

\* line 22: if self._result is not None
L22(t) ==
    /\ pc[t] = "L22"
    /\ IF CacheHit
       THEN /\ pc' = [pc EXCEPT ![t] = "L23"]
            /\ UNCHANGED expired
       ELSE /\ pc' = [pc EXCEPT ![t] = "L27"]
            /\ expired' = [expired EXCEPT ![t] =
                             RecvBlock(t) /\ RecvTimeout(t) = "zero"]
    /\ UNCHANGED <<queue, result, produced, consumers, waiters, block, timeout, item,
                   calls, hist>>

\* Mutant of L23: the cached path returns whatever is cached, an exception
\* included, without the isinstance test.
L23_notest(t) ==
    /\ pc[t] = "L23"
    /\ pc' = [pc EXCEPT ![t] = "L25"]
    /\ UNCHANGED <<queue, result, produced, consumers, waiters, block, timeout,
                   expired, item, calls, hist>>

\* line 23: if isinstance(self._result, Exception)
L23(t) ==
    /\ pc[t] = "L23"
    /\ pc' = [pc EXCEPT ![t] = IF isinstance_Exception(result) THEN "L24" ELSE "L25"]
    /\ UNCHANGED <<queue, result, produced, consumers, waiters, block, timeout,
                   expired, item, calls, hist>>

\* line 24: raise self._result (the exception raised is result)
L24(t) ==
    /\ pc[t] = "L24"
    /\ Finish(t, FALSE)
    /\ UNCHANGED <<queue, result, produced, consumers, waiters, calls>>

\* Mutant of L25: the cached path adapts again on every return.
L25_rewrap(t) ==
    /\ pc[t] = "L25"
    /\ result' = wrap_df(result)
    /\ pc' = [pc EXCEPT ![t] = "idle"]
    /\ block' = [block EXCEPT ![t] = TRUE]
    /\ timeout' = [timeout EXCEPT ![t] = NoTimeout]
    /\ hist' = [hist EXCEPT !.late = FALSE, !.hot = FALSE,
                            !.first = FALSE,
                            !.wraps = @ + 1]
    /\ UNCHANGED <<queue, produced, consumers, waiters, expired, item, calls>>

\* line 25: return self._result (the value returned is result)
L25(t) ==
    /\ pc[t] = "L25"
    /\ Finish(t, FALSE)
    /\ UNCHANGED <<queue, result, produced, consumers, waiters, calls>>

\* Condition.wait's own removal of the thread from the waiters list.
Unregister(t) == SelectSeq(waiters, LAMBDA u : u # t)

\* Positions inside the call self.queue.get(block, timeout) of line 27:
\*   "L27"   at the top of queue.get, about to take the queue's mutex
\*   "L27w"  inside not_empty.wait, the mutex released: registered as a
\*           waiter when it went in, and on the waiters list until a put
\*           notifies it or it has the mutex again
\* Whatever a thread does while it holds the mutex is one step: it looks at
\* the arguments and the queue and takes the item, raises, or registers as a
\* waiter and releases the mutex; a put, which needs the mutex, comes
\* before or after.

\* Thread t's lock wait inside not_empty.wait is over: it was notified, or
\* its deadline has passed, or (timeout nan) the lock wait does not wait at
\* all.  It is still to take the mutex again.
WaitOver(t) ==
    /\ pc[t] = "L27w"
    /\ RecvTimeout(t) \in {NoTimeout, "positive", "nan"}
    /\ \/ \A i \in 1..Len(waiters) : waiters[i] # t
       \/ expired[t]
       \/ RecvTimeout(t) = "nan"

\* Thread t is about to take the mutex and look at the queue: on entering
\* queue.get, or on coming back from not_empty.wait, where taking the mutex
\* again, leaving the waiters list and the next test of queue.get's loop
\* are one critical section.
Looking(t) == pc[t] = "L27" \/ WaitOver(t)

\* line 27, inside queue.get: block=True with a negative timeout: queue.get
\* raises ValueError before it looks at the queue.
QueueRaisesValueError(t) ==
    /\ pc[t] = "L27"
    /\ RecvBlock(t)
    /\ RecvTimeout(t) = "negative"

\* line 27: the ValueError raised by queue.get leaves get before the
\* assignment to self._result; nothing is taken from the queue.
L27_ValueError(t) ==
    /\ QueueRaisesValueError(t)
    /\ Finish(t, FALSE)
    /\ UNCHANGED <<queue, result, produced, consumers, waiters, calls>>

\* line 27, inside queue.get with block=True: OverflowError is raised either
\* when the deadline is computed from an int too large for a float, before
\* the queue is looked at, or by the lock wait inside not_empty.wait for a
\* float it rejects, after the queue was found empty and the mutex released.
QueueRaisesOverflowError(t) ==
    \/ pc[t] = "L27" /\ RecvBlock(t) /\ RecvTimeout(t) = "bigint"
    \/ pc[t] = "L27w" /\ RecvTimeout(t) = "huge"

\* line 27: the OverflowError raised inside queue.get leaves get before the
\* assignment to self._result; nothing is taken from the queue, whatever has
\* been put meanwhile, and a notify that reached this thread is used up.
L27_OverflowError(t) ==
    /\ QueueRaisesOverflowError(t)
    /\ waiters' = Unregister(t)
    /\ Finish(t, FALSE)
    /\ UNCHANGED <<queue, result, produced, consumers, calls>>

\* The arguments are such that queue.get goes on to look at the queue.
QueueLooks(t) ==
    ~(RecvBlock(t) /\ RecvTimeout(t) \in {"negative", "bigint"})

\* Mutant of L27_get: only a blocking get takes a queued item.
L27_get_blockonly(t) ==
    /\ Looking(t)
    /\ queue # <<>>
    /\ RecvBlock(t)
    /\ QueueLooks(t)
    /\ item' = [item EXCEPT ![t] = Head(queue)]
    /\ queue' = Tail(queue)
    /\ waiters' = Unregister(t)
    /\ pc' = [pc EXCEPT ![t] = "L27s"]
    /\ hist' = [hist EXCEPT !.recv = @ + 1]
    /\ UNCHANGED <<result, produced, consumers, block, timeout,
                   expired, calls>>

\* line 27, inside queue.get: an item is there and is taken, with block=False
\* as with block=True, unless the arguments are rejected; a thread back from
\* a wait takes it whether or not its deadline has passed.
L27_get(t) ==
    /\ Looking(t)
    /\ queue # <<>>
    /\ QueueLooks(t)
    /\ item' = [item EXCEPT ![t] = Head(queue)]
    /\ queue' = Tail(queue)
    /\ waiters' = Unregister(t)
    /\ pc' = [pc EXCEPT ![t] = "L27s"]
    /\ hist' = [hist EXCEPT !.recv = @ + 1]
    /\ UNCHANGED <<result, produced, consumers, block, timeout,
                   expired, calls>>

\* line 27, inside queue.get: block=True, nothing queued and no deadline
\* passed: the thread enters not_empty.wait, which registers it as the
\* newest waiter and releases the mutex.  A thread back from a wait (notified
\* with the item gone to another thread, or timeout nan) goes in again.
L27_sleep(t) ==
    /\ Looking(t)
    /\ queue = <<>>
    /\ RecvBlock(t)
    /\ \/ RecvTimeout(t) \in {NoTimeout, "huge", "nan"}
       \/ RecvTimeout(t) = "positive" /\ ~expired[t]
    /\ waiters' = Append(Unregister(t), t)
    /\ pc' = [pc EXCEPT ![t] = "L27w"]
    /\ UNCHANGED <<queue, result, produced, consumers, block, timeout,
                   expired, item, calls, hist>>

\* line 27, inside not_empty.wait with a positive timeout: the deadline
\* passes; the thread stays on the waiters list until it has the mutex
\* again.
L27_wait(t) ==
    /\ pc[t] = "L27w"
    /\ RecvTimeout(t) = "positive"
    /\ ~expired[t]
    /\ expired' = [expired EXCEPT ![t] = TRUE]
    /\ UNCHANGED <<queue, result, produced, consumers, waiters, pc, block,
                   timeout, item, calls, hist>>

\* line 27, inside queue.get: nothing queued and block=False, or the timeout
\* has run out: queue.get raises Empty.
QueueRaisesEmpty(t) ==
    /\ Looking(t)
    /\ queue = <<>>
    /\ \/ ~RecvBlock(t)
       \/ RecvTimeout(t) \in {"zero", "positive"} /\ expired[t]

\* Mutant of L27_Empty: the wait failure is caught and stored in the slot
\* before it is raised again.
L27_Empty_cached(t) ==
    /\ QueueRaisesEmpty(t)
    /\ waiters' = Unregister(t)
    /\ Finish(t, TRUE)
    /\ result' = Empty
    /\ UNCHANGED <<queue, produced, consumers, calls>>

\* line 27: the Empty raised by queue.get leaves get before the assignment
\* to self._result; a thread back from its wait is off the waiters list.
L27_Empty(t) ==
    /\ QueueRaisesEmpty(t)
    /\ waiters' = Unregister(t)
    /\ Finish(t, TRUE)
    /\ UNCHANGED <<queue, result, produced, consumers, calls>>

\* A thread asleep inside not_empty.wait: registered, not notified, its
\* deadline, if it has one, not passed.  Nothing it can do until a notify or
\* the deadline.
Blocked(t) ==
    /\ pc[t] = "L27w"
    /\ \E i \in 1..Len(waiters) : waiters[i] = t
    /\ \/ RecvTimeout(t) = NoTimeout
       \/ RecvTimeout(t) = "positive" /\ ~expired[t]

\* Mutant of L27_store: the item is adapted as it is stored, before the
\* isinstance test of line 28.
L27_store_eager(t) ==
    /\ pc[t] = "L27s"
    /\ result' = wrap_df(item[t])
    /\ item' = [item EXCEPT ![t] = None]
    /\ pc' = [pc EXCEPT ![t] = "L28"]
    /\ hist' = [hist EXCEPT !.wraps = @ + 1]
    /\ UNCHANGED <<queue, produced, consumers, waiters, block, timeout, expired,
                   calls>>

\* Mutant of L27_store: an exception received from the queue is raised at
\* once and not kept in the slot.
L27_store_dropfail(t) ==
    /\ pc[t] = "L27s"
    /\ IF isinstance_Exception(item[t])
         THEN /\ Finish(t, FALSE)
              /\ UNCHANGED <<queue, result, produced, consumers, waiters, calls>>
         ELSE /\ result' = item[t]
              /\ item' = [item EXCEPT ![t] = None]
              /\ pc' = [pc EXCEPT ![t] = "L28"]
              /\ UNCHANGED <<queue, produced, consumers, waiters, block, timeout,
                             expired, calls, hist>>

\* line 27: self._result = <the item queue.get returned>
L27_store(t) ==
    /\ pc[t] = "L27s"
    /\ result' = item[t]
    /\ item' = [item EXCEPT ![t] = None]
    /\ pc' = [pc EXCEPT ![t] = "L28"]
    /\ UNCHANGED <<queue, produced, consumers, waiters, block, timeout, expired,
                   calls, hist>>

\* line 28: if isinstance(self._result, Exception)
L28(t) ==
    /\ pc[t] = "L28"
    /\ pc' = [pc EXCEPT ![t] = IF isinstance_Exception(result) THEN "L29" ELSE "L30"]
    /\ UNCHANGED <<queue, result, produced, consumers, waiters, block, timeout,
                   expired, item, calls, hist>>

\* line 29: raise self._result (the exception raised is result)
L29(t) ==
    /\ pc[t] = "L29"
    /\ Finish(t, FALSE)
    /\ UNCHANGED <<queue, result, produced, consumers, waiters, calls>>

\* Mutant of L30: the received payload is left as it came.
L30_nowrap(t) ==
    /\ pc[t] = "L30"
    /\ item' = [item EXCEPT ![t] = result]
    /\ pc' = [pc EXCEPT ![t] = "L30s"]
    /\ UNCHANGED <<queue, result, produced, consumers, waiters, block, timeout,
                   expired, calls, hist>>

\* line 30, right-hand side: wrap_df(self._result) reads the slot and
\* returns the adapted value; other threads run before it is assigned.
L30(t) ==
    /\ pc[t] = "L30"
    /\ item' = [item EXCEPT ![t] = wrap_df(result)]
    /\ hist' = [hist EXCEPT !.wraps = @ + 1]
    /\ pc' = [pc EXCEPT ![t] = "L30s"]
    /\ UNCHANGED <<queue, result, produced, consumers, waiters, block, timeout,
                   expired, calls>>

\* line 30: self._result = <the value wrap_df returned>
L30_store(t) ==
    /\ pc[t] = "L30s"
    /\ result' = item[t]
    /\ item' = [item EXCEPT ![t] = None]
    /\ pc' = [pc EXCEPT ![t] = "L31"]
    /\ UNCHANGED <<queue, produced, consumers, waiters, block, timeout, expired,
                   calls, hist>>

\* line 30, when the call wrap_df(self._result) raises: the exception leaves
\* get before the assignment, so self._result keeps what line 27 stored.
L30_raises(t) ==
    /\ pc[t] = "L30"
    /\ pc' = [pc EXCEPT ![t] = "idle"]
    /\ block' = [block EXCEPT ![t] = TRUE]
    /\ timeout' = [timeout EXCEPT ![t] = NoTimeout]
    /\ expired' = [expired EXCEPT ![t] = FALSE]
    /\ item' = [item EXCEPT ![t] = None]
    /\ hist' = [hist EXCEPT !.late = FALSE, !.hot = FALSE,
                            !.first = FALSE, !.wrapRaised = TRUE]
    /\ UNCHANGED <<queue, result, produced, consumers, waiters, calls>>

\* line 31: return self._result (the value returned is result)
L31(t) ==
    /\ pc[t] = "L31"
    /\ Finish(t, FALSE)
    /\ UNCHANGED <<queue, result, produced, consumers, waiters, calls>>

\* One step of thread t inside get.
Step(t) ==
    \/ L22(t) \/ L23(t) \/ L24(t) \/ L25(t)
    \/ L27_ValueError(t) \/ L27_OverflowError(t)
    \/ L27_get(t) \/ L27_sleep(t) \/ L27_wait(t)
    \/ L27_Empty(t) \/ L27_store(t)
    \/ L28(t) \/ L29(t) \/ L30(t) \/ L30_store(t) \/ L31(t)

Next ==
    \/ \E o \in Outcomes : Put(o)
    \/ \E t \in Threads, b \in BOOLEAN, d \in Timeouts : Call(t, b, d)
    \/ \E t \in Threads : Step(t)

\* NumThreads consumer threads share the future; they may call one after
\* another or concurrently.
Spec == Init /\ [][Next]_vars

\* One consumer thread.
SpecSingle == InitSingle /\ [][Next]_vars

\* The interpreter keeps scheduling every thread that can run a step.
Fairness == \A t \in Threads : WF_vars(Step(t))

FairSpec == Spec /\ Fairness

FairSingle == SpecSingle /\ Fairness

\* One consumer thread, and a wrap_df that may raise on the payload.
NextWrapRaises ==
    \/ Next
    \/ \E t \in Threads : L30_raises(t)

SpecWrapRaises == InitSingle /\ [][NextWrapRaises]_vars

\* ------------------------------------------------------------ properties
\* Thread t stands at a return statement of get: the value it returns is
\* the current result.
AtReturn(t) == pc[t] \in {"L25", "L31"}

\* Thread t stands at a raise statement of get: the exception it raises is
\* the current result.
AtRaise(t) == pc[t] \in {"L24", "L29"}

\* Thread t runs get() with the default arguments block=True, timeout=None.
DefaultArgs(t) == pc[t] # "idle" /\ block[t] /\ timeout[t] = NoTimeout

\* C1 (idempotent success, one consumer): when the producer puts a raw
\* payload x, no get raises the producer's way, every get that returns
\* returns wrap_df(x) after exactly one receive, a get() with the default
\* arguments never fails with Empty, and the queue is received from at most
\* once over all the calls.
C1_IdempotentSuccess ==
    /\ hist.recv <= 1
    /\ \A t \in consumers :
        /\ AtReturn(t) =>
              /\ produced \in RawPayloads
              /\ result = wrap_df(produced)
              /\ hist.recv = 1
        /\ produced \in RawPayloads => ~AtRaise(t)
        /\ DefaultArgs(t) => ~QueueRaisesEmpty(t) /\ ~QueueRaisesValueError(t)

\* A second or later get of the one consumer returns wrap_df(x) from the
\* cache, the single receive long done.
C1_Witness ==
    /\ calls >= 2
    /\ pc[1] = "L25"
    /\ produced \in RawPayloads
    /\ result = wrap_df(produced)
    /\ hist.recv = 1
    /\ queue = <<>>

\* C2 as stated (idempotent failure, one consumer): when the producer puts
\* the exception e, no get returns a value, every get that raises raises e
\* itself, and a get begun once e is put, whatever block and timeout it
\* passes, fails with no other error (neither Empty nor ValueError) and is
\* not left waiting.
C2_WhateverArguments ==
    produced \in ProducerErrors =>
        \A t \in consumers :
            /\ ~AtReturn(t)
            /\ AtRaise(t) => result = produced
            /\ hist.late =>
                  /\ ~QueueRaisesEmpty(t)
                  /\ ~Blocked(t)
                  /\ ~QueueRaisesValueError(t)
                  /\ ~QueueRaisesOverflowError(t)

\* C2 amended (idempotent failure, one consumer): when the producer puts the
\* exception e, no get returns a value, every get that raises out of lines
\* 24/29 raises e itself, and a get begun once e is put neither fails with
\* Empty nor waits; the other errors are those of a get(block=True) whose
\* timeout queue.get rejects before it looks at the queue (ValueError for a
\* negative one, OverflowError for an int too large for a float), they are
\* raised only while the slot is still None, and they leave the slot and
\* the queue as they were; a get begun once e is cached raises e whatever
\* block and timeout it passes; a get() with the default arguments begun
\* before the put fails with none of Empty, ValueError, OverflowError.
C2_FailureState ==
    produced \in ProducerErrors =>
        \A t \in consumers :
            /\ ~AtReturn(t)
            /\ AtRaise(t) => result = produced
            /\ hist.late =>
                  /\ ~QueueRaisesEmpty(t)
                  /\ ~Blocked(t)
                  /\ pc[t] # "L27w"
                  /\ QueueRaisesOverflowError(t) => timeout[t] = "bigint"
                  /\ (pc[t] = "L27" /\ QueueLooks(t)) =>
                        (queue = <<produced>> /\ ENABLED L27_get(t))
            /\ (QueueRaisesValueError(t) \/ QueueRaisesOverflowError(t)) =>
                  /\ block[t]
                  /\ timeout[t] \in {"negative", "bigint", "huge"}
                  /\ result = None
                  /\ ~hist.hot
            /\ (pc[t] # "idle" /\ hist.hot) =>
                  (pc[t] \in {"L22", "L23", "L24"} /\ result = produced)
            /\ DefaultArgs(t) =>
                  /\ ~QueueRaisesEmpty(t)
                  /\ ~QueueRaisesValueError(t)
                  /\ ~QueueRaisesOverflowError(t)

C2_ValueErrorStep ==
    \A t \in consumers :
        ((QueueRaisesValueError(t) \/ QueueRaisesOverflowError(t))
            /\ pc'[t] = "idle") =>
            (queue' = queue /\ result' = result /\ produced' = produced)

\* C2 amended: the state part and the rejected-timeout step together.
C2_IdempotentFailure == []C2_FailureState /\ [][C2_ValueErrorStep]_vars

\* A second or later get, called with block=True and a negative timeout,
\* re-raises the cached e.
C2_Witness ==
    /\ calls >= 2
    /\ pc[1] = "L24"
    /\ block[1] /\ timeout[1] = "negative"
    /\ produced \in ProducerErrors
    /\ result = produced
    /\ hist.recv = 1

\* C3 (atomic check-receive-cache): once the producer has put its one item,
\* no get(block=True, timeout=None) is left waiting on the emptied queue
\* because another caller took the item.
C3_NoCallerLeftWaiting ==
    \A t \in consumers :
        ~(DefaultArgs(t) /\ Blocked(t) /\ produced # None)

\* C4 as stated (timeout, one consumer): a get(block=True, timeout=d), d any
\* duration from zero up, that is inside queue.get with nothing queued is
\* waiting or about to fail with Empty (Timeout); it is never about to fail
\* with another error.
C4_FailsWithTimeoutOnly ==
    \A t \in consumers :
        (pc[t] \in {"L27", "L27w"} /\ block[t] /\ queue = <<>>
            /\ timeout[t] \in {"zero", "positive", "huge", "bigint"}) =>
            ~QueueRaisesOverflowError(t)

\* C4 amended (timeout, one consumer): a get(block=True, timeout=d), d zero
\* or a positive duration the lock wait accepts, whose time has run out with
\* nothing queued raises Empty and can do nothing else; the raise leaves
\* result None, the queue empty and the producer untouched.  A blocking get
\* leaves queue.get without an item in two other ways only, ValueError (d
\* negative) and OverflowError (d an int too large for a float, or a float
\* the lock wait rejects), neither after waiting out d; they too leave the
\* slot None and the queue and the producer as they were.  After a timeout,
\* a get(block=True, timeout=None) finds the item the producer has put
\* since, does not fail with Empty, and ends with the producer's outcome
\* after the one receive.
C4_TimeoutStep ==
    \A t \in consumers :
        (pc[t] \in {"L27", "L27w"} /\ block[t] /\ pc'[t] = "idle") =>
            /\ result = None /\ result' = None
            /\ queue' = queue
            /\ produced' = produced
            /\ \/ QueueRaisesEmpty(t)
               \/ QueueRaisesValueError(t)
               \/ QueueRaisesOverflowError(t)
            /\ QueueRaisesEmpty(t) =>
                  /\ timeout[t] \in {"zero", "positive"}
                  /\ expired[t]
                  /\ queue = <<>>
                  /\ hist'.timedOut
            /\ QueueRaisesValueError(t) =>
                  /\ timeout[t] = "negative"
                  /\ hist'.timedOut = hist.timedOut
            /\ QueueRaisesOverflowError(t) =>
                  /\ timeout[t] \in {"bigint", "huge"}
                  /\ ~expired[t]
                  /\ hist'.timedOut = hist.timedOut

C4_TimedOut ==
    \A t \in consumers :
        /\ (pc[t] \in {"L27", "L27w"} /\ block[t] /\ expired[t]
                /\ queue = <<>>) =>
              /\ timeout[t] \in {"zero", "positive"}
              /\ QueueRaisesEmpty(t)
              /\ ~Blocked(t)
              /\ ~ENABLED L27_sleep(t)
              /\ ~ENABLED L27_get(t)
        /\ (pc[t] # "idle" /\ block[t] /\ timeout[t] \in {"zero", "positive"}) =>
              (~QueueRaisesValueError(t) /\ ~QueueRaisesOverflowError(t))
        /\ expired[t] => timeout[t] \in {"zero", "positive"}

C4_RetryAfterTimeout ==
    \A t \in consumers :
        (hist.timedOut /\ DefaultArgs(t)) =>
            /\ ~QueueRaisesEmpty(t)
            /\ (pc[t] \in {"L27", "L27w"} /\ produced # None) =>
                  (queue = <<produced>> /\ ENABLED L27_get(t))
            /\ AtReturn(t) => result = wrap_df(produced) /\ hist.recv = 1
            /\ AtRaise(t) => result = produced /\ hist.recv = 1

C4_TimeoutSemantics ==
    [][C4_TimeoutStep]_vars /\ []C4_TimedOut /\ []C4_RetryAfterTimeout

\* An earlier get timed out; the producer put afterwards; the later get()
\* received the item and returns it adapted.
C4_Witness ==
    /\ hist.timedOut
    /\ DefaultArgs(1)
    /\ pc[1] = "L31"
    /\ produced \in RawPayloads
    /\ result = wrap_df(produced)

\* C5 (non-blocking): a get(block=False) that reaches queue.get while nothing
\* is queued raises Empty at once, timeout or no timeout: it is never left
\* waiting and does not wait for any deadline; the raise leaves result and
\* the queue as they were.
C5_NoWait ==
    \A t \in consumers :
        /\ (pc[t] = "L27" /\ ~block[t] /\ queue = <<>>) =>
              /\ QueueRaisesEmpty(t)
              /\ ~Blocked(t)
              /\ ~ENABLED L27_sleep(t)
              /\ ~ENABLED L27_wait(t)
              /\ ~expired[t]
        /\ (pc[t] # "idle" /\ ~block[t]) => pc[t] # "L27w"

C5_EmptyStep ==
    \A t \in consumers :
        (pc[t] = "L27" /\ ~block[t] /\ pc'[t] = "idle") =>
            /\ queue = <<>> /\ queue' = <<>>
            /\ result' = result
            /\ produced' = produced

C5_NonBlocking == []C5_NoWait /\ [][C5_EmptyStep]_vars

\* A get(block=False) has failed with Empty: the slot
\* is still None and nothing was received.
C5_Witness ==
    /\ hist.wouldBlock
    /\ result = None
    /\ hist.recv = 0
    /\ \A t \in consumers : pc[t] = "idle"

\* C6 (blocking wait, one consumer): a get(block=True, timeout=None) begun
\* before the producer's put neither returns nor raises nor fails with Empty
\* while nothing is put; when it returns it returns wrap_df of the payload
\* put, when it raises it raises the exception put; and once the item is
\* put the waiting get does come to its end.
C6_NotBeforePut ==
    \A t \in consumers :
        /\ produced = None => ~AtReturn(t) /\ ~AtRaise(t) /\ pc[t] # "L27s"
        /\ DefaultArgs(t) =>
            /\ ~QueueRaisesEmpty(t)
            /\ AtReturn(t) => produced \in RawPayloads /\ result = wrap_df(produced)
            /\ AtRaise(t) => result = produced

C6_ReturnsAfterPut ==
    \A t \in Threads :
        (DefaultArgs(t) /\ ~hist.late /\ produced # None) ~> (pc[t] = "idle")

C6_BlockingWait == []C6_NotBeforePut /\ C6_ReturnsAfterPut

\* A get() begun before the put, which therefore waited for it, returns the
\* adapted payload.
C6_Witness ==
    /\ DefaultArgs(1)
    /\ ~hist.late
    /\ pc[1] = "L31"
    /\ produced \in RawPayloads
    /\ result = wrap_df(produced)

\* C7 (write-once slot): once self._result is not None, no step changes it.
C7_WriteOnce == [][result # None => result' = result]_vars

\* C8 (no receive once cached): no item is taken from the queue while the
\* slot is non-empty; a get whose test at line 22 finds the slot non-empty
\* goes on to lines 23-25, never to queue.get at line 27; and on lines 23-25
\* it can always take its next step, which leaves the queue alone and ends
\* in return or raise.
C8_CachedPathStep ==
    /\ hist.recv' > hist.recv => result = None
    /\ \A t \in consumers :
        /\ (pc[t] = "L22" /\ result # None) => pc'[t] \in {"L22", "L23"}
        /\ pc[t] \in {"L23", "L24", "L25"} =>
              /\ pc'[t] \in {"L23", "L24", "L25", "idle"}
              /\ pc'[t] # pc[t] => queue' = queue

C8_CachedPathRuns ==
    \A t \in consumers :
        pc[t] \in {"L23", "L24", "L25"} => ~Blocked(t) /\ ENABLED Step(t)

C8_NoReceiveOnceCached == [][C8_CachedPathStep]_vars /\ []C8_CachedPathRuns

\* A get found the slot filled by an earlier receive and is about to return
\* or raise from it.
C8_Witness ==
    \E t \in consumers :
        /\ pc[t] \in {"L24", "L25"}
        /\ hist.recv = 1
        /\ result # None
        /\ queue = <<>>

\* C9 (no double adapt): wrap_df is invoked at most once over the future's
\* life, also with several threads inside get at once.
C9_AtMostOneWrap == hist.wraps <= 1

\* Two threads are inside get after the put: wrap_df has returned in one of
\* them, its value not yet assigned, while the other is inside get too.
C9_Witness ==
    \E t, u \in consumers :
        /\ t # u
        /\ pc[t] = "L30s" /\ pc[u] # "idle"
        /\ produced \in RawPayloads
        /\ hist.wraps = 1

\* C10 as stated: every get invocation after the first made on the future
\* stays on the cached path, lines 22-25, and so cannot block.
C10_OnlyFirstMayBlock ==
    \A t \in consumers :
        (pc[t] # "idle" /\ ~hist.first) =>
            pc[t] \in {"L22", "L23", "L24", "L25"}

\* C10 amended: what keeps a get from blocking is the slot, not the count of
\* invocations.  A get begun with self._result not None stays on lines
\* 22-25 and is never left waiting; a get is left waiting in queue.get only
\* if it began with the slot empty, and with one consumer only while no
\* invocation has received the producer's item.
C10_BlocksOnlyWhileEmpty ==
    \A t \in consumers :
        /\ hist.hot => pc[t] \in {"L22", "L23", "L24", "L25"}
        /\ Blocked(t) => ~hist.hot
        /\ (consumers = {1} /\ pc[t] \in {"L27", "L27w"}) =>
              (hist.recv = 0 /\ result = None)

\* A get begun after the slot was filled by an earlier invocation's receive
\* is on the cached path, about to return or raise.
C10_Witness ==
    \E t \in consumers :
        /\ calls >= 2
        /\ hist.hot
        /\ pc[t] \in {"L24", "L25"}
        /\ hist.recv = 1

\* C11 (lazy, single adaptation): wrap_df has not run when the future is
\* built nor when the producer puts; the only step that runs it is line 30 of
\* the get that received the raw payload, on that payload, once; it never
\* runs when the item put is an exception, and never on lines 23-25; a get
\* that returns from line 31 has run it exactly once.
C11_WrapStep ==
    hist.wraps' # hist.wraps =>
        /\ hist.wraps = 0 /\ hist.wraps' = 1
        /\ hist.recv = 1
        /\ result = produced /\ result \in RawPayloads
        /\ result' = result
        /\ \E t \in consumers :
              /\ pc[t] = "L30" /\ pc'[t] = "L30s"
              /\ item'[t] = wrap_df(produced)

C11_WrapState ==
    /\ (calls = 0 \/ hist.recv = 0) => hist.wraps = 0
    /\ produced \in ProducerErrors => hist.wraps = 0
    /\ \A t \in consumers : pc[t] \in {"L30s", "L31"} => hist.wraps = 1
    /\ result.kind = "DataFrame" =>
          (hist.wraps = 1 /\ result = wrap_df(produced))
    /\ hist.wraps = 1 =>
          \/ result = wrap_df(produced)
          \/ \E t \in consumers : pc[t] = "L30s" /\ item[t] = wrap_df(produced)

C11_LazyAdaptOnce == [][C11_WrapStep]_vars /\ []C11_WrapState

\* The get that received the raw payload has run wrap_df and is about to
\* return, while another get is served from the cache.
C11_Witness ==
    \E t, u \in consumers :
        /\ pc[t] = "L31"
        /\ pc[u] \in {"L23", "L25"}
        /\ hist.wraps = 1
        /\ result = wrap_df(produced)

\* C12 (non-blocking get with the item queued): a get(block=False) that
\* found the slot empty and finds the item queued takes it instead of raising
\* Empty, stores it in the slot, and then raises it if it is the producer's
\* exception or returns its adapted form, leaving the queue empty.
C12_NonBlockingReceives ==
    \A t \in consumers : (pc[t] # "idle" /\ ~block[t]) =>
        /\ (pc[t] = "L27" /\ queue # <<>>) =>
              /\ ENABLED L27_get(t)
              /\ ~ENABLED L27_Empty(t)
              /\ ~ENABLED L27_sleep(t)
              /\ ~ENABLED L27_ValueError(t)
              /\ ~ENABLED L27_OverflowError(t)
        /\ pc[t] # "L27w"
        /\ pc[t] = "L27s" => (item[t] = produced /\ queue = <<>>)
        /\ pc[t] \in {"L28", "L29", "L30", "L30s"} =>
              (result = produced /\ queue = <<>>)
        /\ pc[t] = "L30s" => item[t] = wrap_df(produced)
        /\ pc[t] = "L29" => produced \in ProducerErrors
        /\ pc[t] = "L30" => produced \in RawPayloads
        /\ pc[t] = "L31" => (result = wrap_df(produced) /\ queue = <<>>)

\* A get(block=False), which cannot have waited, has taken the queued raw
\* payload and is about to return its adapted form.
C12_Witness ==
    \E t \in consumers :
        /\ ~block[t]
        /\ pc[t] = "L31"
        /\ hist.recv = 1
        /\ result = wrap_df(produced)

\* A get(block=False) has taken the queued exception and is about to raise it.
C12_WitnessFailure ==
    \E t \in consumers :
        ~block[t] /\ pc[t] = "L29" /\ result = produced

\* C13 (no implicit timeout): while the producer has put nothing, a
\* get(block=True, timeout=None) is at line 22, or inside queue.get at line
\* 27 where all it can do is go to sleep in not_empty.wait, or asleep there
\* with no step it can take: it neither returns nor raises, queue.get raises
\* neither Empty nor ValueError nor OverflowError, and the slot stays None.
C13_WaitsIndefinitely ==
    \A t \in consumers : (DefaultArgs(t) /\ produced = None) =>
        /\ pc[t] \in {"L22", "L27", "L27w"}
        /\ ~AtReturn(t) /\ ~AtRaise(t)
        /\ result = None
        /\ queue = <<>>
        /\ ~expired[t]
        /\ ~QueueRaisesEmpty(t)
        /\ ~QueueRaisesValueError(t)
        /\ ~QueueRaisesOverflowError(t)
        /\ pc[t] = "L22" => ~CacheHit
        /\ pc[t] = "L27" =>
              /\ ENABLED L27_sleep(t)
              /\ ~ENABLED L27_get(t)
              /\ ~ENABLED L27_Empty(t)
        /\ pc[t] = "L27w" =>
              /\ Blocked(t)
              /\ ~ENABLED Step(t)

\* A get with the default arguments waits inside queue.get on a producer that
\* has put nothing, after an earlier get with a timeout gave up.
C13_Witness ==
    \E t \in consumers :
        /\ DefaultArgs(t)
        /\ Blocked(t)
        /\ produced = None
        /\ hist.timedOut

\* C14 (the raw payload never escapes): whenever a get is at a return
\* statement (line 25 or line 31), in any interleaving of concurrent gets,
\* the value it returns is an adapted DataFrame, never the PyDataFrame the
\* producer put.
C14_NeverReturnsRaw ==
    \A t \in consumers : AtReturn(t) => result.kind = "DataFrame"

\* C15 (a failed adaptation leaves no raw payload behind): once wrap_df has
\* raised in the get that received the raw payload, self._result between
\* calls is None or an exception, not the PyDataFrame, and no get is at a
\* return statement with the PyDataFrame as its value.
C15_NoRawAfterWrapFailure ==
    hist.wrapRaised =>
        \A t \in consumers :
            /\ pc[t] = "idle" => result.kind \in {"None", "Exception"}
            /\ AtReturn(t) => result.kind # "PyDataFrame"

\* C16 (conservation of the outcome, one consumer): between get calls the
\* items in the queue plus one for a non-None slot number at most one, and
\* exactly one once the producer has put; inside a call the item is in the
\* queue, in the receiving frame or in the slot; and a get that ends with
\* Empty (timeout or block=False) leaves both the queue and the slot as they
\* were.
C16_Cached == IF result # None THEN 1 ELSE 0

C16_Produced == IF produced # None THEN 1 ELSE 0

C16_Count ==
    /\ Len(queue) + C16_Cached <= 1
    /\ pc[1] = "idle" => Len(queue) + C16_Cached = C16_Produced
    /\ pc[1] # "idle" =>
          Len(queue) + C16_Cached + (IF pc[1] = "L27s" THEN 1 ELSE 0)
              = C16_Produced

C16_EmptyStep ==
    (QueueRaisesEmpty(1) /\ pc'[1] = "idle") =>
        (queue' = queue /\ result' = result /\ produced' = produced)

C16_Conservation == []C16_Count /\ [][C16_EmptyStep]_vars

\* Between calls, after one get has ended with Empty and a later one has
\* received the item: the queue is empty and the slot holds the outcome.
C16_Witness ==
    /\ pc[1] = "idle"
    /\ hist.timedOut \/ hist.wouldBlock
    /\ produced # None
    /\ queue = <<>>
    /\ result # None

====
